---- MODULE Spec2Model ----
(***************************************************************************)
(* DashboardContent (admin-panel/src/pages/DashboardContent.tsx): a React  *)
(* component that loads chart data for the selected device or hierarchy    *)
(* node, re-loads it from a 5-second interval timer, and keeps two         *)
(* snapshots (chartData, hierarchyChartData), a loading flag and a         *)
(* last-refresh stamp.                                                     *)
(*                                                                         *)
(* One action is one macrotask of the JavaScript event loop: a render      *)
(* caused by new props / a new token / setTimeRange together with the      *)
(* effects React runs for it, one firing of the interval callback, or the  *)
(* continuation of one awaited API call.  The synchronous prefix of an     *)
(* async load function (the token guard, setIsLoading(true), the API       *)
(* call) belongs to the step that calls it.                                *)
(*                                                                         *)
(* Time is counted in ticks; TicksPerPeriod ticks make one timer period.   *)
(***************************************************************************)
EXTENDS Integers, FiniteSets, Sequences, Bags, TLC

\* ------------------------------------------------------------------ bounds
MaxInFlight == 2      \* API calls awaiting settlement at the same time
MaxTimers == 2        \* interval ids the runtime hands out
TicksPerPeriod == 1   \* granularity of the clock: ticks per timer period

\* ------------------------------------------------------- program constants
Period == 5           \* seconds between two firings (setInterval(..., 5000))
PeriodTicks == TicksPerPeriod
WindowTicks == (20 \div Period) * TicksPerPeriod   \* a 20-second window

timeRangeOptions == {"hour", "day", "week", "month"}
DefaultTimeRange == "day"
\* the time ranges the user clicks in the model
TimeRanges == {"day", "week"}

\* ------------------------------------------------------------------ values
\* null / undefined of the program
Null == [kind |-> "null"]
\* the token is a string or null; 0 stands for the falsy values
NoToken == 0
Tokens == {1}
\* Device objects the parent passes (a missing deviceId would be 0, falsy)
Devices == {[deviceId |-> 12, id |-> 1]}
\* hierarchy nodes the parent passes
Hierarchies == {[id |-> 7]}
TimerIds == 1 .. MaxTimers

VARIABLES
    phase,              \* "constructed" (rendered, effects not yet run), "mounted", "unmounted"
    selectedDevice,     \* prop: a Device or Null
    selectedHierarchy,  \* prop: a hierarchy node or Null
    token,              \* useAuth().token
    timeRange,          \* useState('day')
    chartData,          \* useState<DeviceChartData | null>(null)
    hierarchyChartData, \* useState<HierarchyChartData | null>(null)
    isLoading,          \* useState(false)
    lastRefresh,        \* useState(new Date()), held as its age in ticks (saturating)
    refreshIntervalRef, \* useRef(null): the id last returned by setInterval, 0 for null
    timers,             \* the live intervals of the runtime, each with its callback's closure
    inflight,           \* bag of API calls that were made and have not settled
    win,                \* history: ticks since the selection/token last changed, timer fetches since
    last                \* history: the step that led to this state

vars == <<phase, selectedDevice, selectedHierarchy, token, timeRange, chartData,
          hierarchyChartData, isLoading, lastRefresh, refreshIntervalRef, timers,
          inflight, win, last>>

\* ----------------------------------------------------------------- helpers
Min(a, b) == IF a < b THEN a ELSE b

\* the age at which the model stops telling last-refresh stamps apart
AgeCap == PeriodTicks

\* `selectedDevice && !selectedHierarchy`
OnlyDevice(d, h) == d # Null /\ h = Null

\* `selectedHierarchy && !selectedDevice`
OnlyHierarchy(d, h) == h # Null /\ d = Null

\* `selectedDevice.deviceId || selectedDevice.id`
DeviceKey(d) == IF d.deviceId # 0 THEN d.deviceId ELSE d.id

\* mutant: loadDeviceChartData without its token guard
LoadDeviceChartData_NoGuard(deviceId, r, tok) ==
    [kind |-> "device", id |-> deviceId, timeRange |-> r, token |-> tok]

\* loadDeviceChartData up to its await: the API call it makes, Null when the
\* token guard returns first.  deviceIdNumber is deviceId for a numeric id.
LoadDeviceChartData(deviceId, r, tok) ==
    IF tok = NoToken THEN Null
    ELSE [kind |-> "device", id |-> deviceId, timeRange |-> r, token |-> tok]

\* loadHierarchyChartData up to its await
LoadHierarchyChartData(hierarchyId, r, tok) ==
    IF tok = NoToken THEN Null
    ELSE [kind |-> "hierarchy", id |-> hierarchyId, timeRange |-> r, token |-> tok]

\* the if / else-if shared by the selection effect and the interval callback,
\* evaluated on the values d, h, r, tok its closure holds
Requested(d, h, r, tok) ==
    IF OnlyDevice(d, h) THEN LoadDeviceChartData(DeviceKey(d), r, tok)
    ELSE IF OnlyHierarchy(d, h) THEN LoadHierarchyChartData(h.id, r, tok)
    ELSE Null

\* mutant: the selection effect nulls the hierarchy snapshot in every branch
HierarchyAfterEffect_Always(d, h, cur) == Null

\* setHierarchyChartData(null) of the device branch of the selection effect
HierarchyAfterEffect(d, h, cur) == IF OnlyDevice(d, h) THEN Null ELSE cur

\* mutant: the hierarchy branch forgets setChartData(null)
ChartAfterEffect_NoClear(d, h, cur) == cur

\* setChartData(null) of the hierarchy branch of the selection effect
ChartAfterEffect(d, h, cur) == IF OnlyHierarchy(d, h) THEN Null ELSE cur

\* mutant: timeRange is missing from the selection effect's dependency array
SelectionEffectDeps_NoRange(d, h, r, tok) == <<d, h, tok>>

\* the selection effect re-runs when its dependency array changes
SelectionEffectDeps(d, h, r, tok) == <<d, h, r, tok>>

\* mutant: timeRange is added to the auto-refresh effect's dependency array
RefreshEffectDeps_WithRange(d, h, r, tok) == <<d, h, r, tok>>

\* mutant: selectedDevice is missing from the auto-refresh effect's dependency array
RefreshEffectDeps_NoDevice(d, h, r, tok) == <<h, tok>>

\* the auto-refresh effect re-runs when its dependency array changes
RefreshEffectDeps(d, h, r, tok) == <<d, h, tok>>

\* the API call f joins the calls in flight (f = Null: no call was made)
Issue(bag, f) == IF f = Null THEN bag ELSE bag (+) SetToBag({f})

\* setIsLoading(true) runs exactly when the token guard was passed
LoadingAfterCall(f, cur) == IF f = Null THEN cur ELSE TRUE

\* clearInterval(id)
ClearInterval(ts, id) == {t \in ts : t.id # id}

\* mutant: the interval held in the ref is never cleared
ClearCurrent_Never(ts, ref) == ts

\* `if (refreshIntervalRef.current) clearInterval(refreshIntervalRef.current)`:
\* the cleanup of the auto-refresh effect and the head of startAutoRefresh
ClearCurrent(ts, ref) == IF ref # 0 THEN ClearInterval(ts, ref) ELSE ts

\* ids setInterval can return: none of a live interval.  (A real runtime never
\* hands out an id twice; the id of a cleared interval is reused here because
\* startAutoRefresh overwrites the ref with the new id in the same step.)
FreeIds(ts, ref) == TimerIds \ {t.id : t \in ts}
NewId(ts, ref) == CHOOSE i \in FreeIds(ts, ref) : \A j \in FreeIds(ts, ref) : i <= j

\* the interval created by startAutoRefresh, with the values its callback closes over
NewTimer(id, d, h, r, tok) ==
    [id |-> id, selectedDevice |-> d, selectedHierarchy |-> h,
     timeRange |-> r, token |-> tok, wait |-> PeriodTicks]

\* cleanup of the previous auto-refresh effect, then startAutoRefresh()
RestartTimers(ts, ref, d, h, r, tok) ==
    LET cleaned == ClearCurrent(ClearCurrent(ts, ref), ref)
    IN  cleaned \cup {NewTimer(NewId(cleaned, ref), d, h, r, tok)}

\* what the awaited API call can settle with
Payloads(f) ==
    IF f.kind = "device"
    THEN {[deviceId |-> k, timeRange |-> f.timeRange] : k \in {0, f.id}}
    ELSE {[id |-> f.id, timeRange |-> f.timeRange]}
Responses(f) ==
    {[settled |-> "rejected"],
     [settled |-> "fulfilled", success |-> TRUE, data |-> Null]}
    \cup {[settled |-> "fulfilled", success |-> FALSE, data |-> p] :
            p \in {CHOOSE q \in Payloads(f) : TRUE}}
    \cup {[settled |-> "fulfilled", success |-> TRUE, data |-> p] : p \in Payloads(f)}

\* `response.success && response.data` after the await (a rejection goes to catch)
Accepted(resp) == resp.settled = "fulfilled" /\ resp.success /\ resp.data # Null

\* transformedData: device.id is `response.data.device.deviceId?.toString() ||
\* deviceId.toString()`, timeRange is response.data.timeRange
TransformedData(f, data) ==
    [id |-> IF data.deviceId # 0 THEN data.deviceId ELSE f.id,
     timeRange |-> data.timeRange]

\* mutant: a failed device call blanks the snapshot
ChartAfterSettle_NullOnFailure(f, resp, cur) ==
    IF f.kind = "device"
    THEN IF Accepted(resp) THEN TransformedData(f, resp.data) ELSE Null
    ELSE cur

\* mutant: a request-generation guard drops the result of a call that is not
\* the one for the device selected now
ChartAfterSettle_Guarded(f, resp, cur) ==
    IF /\ f.kind = "device"
       /\ Accepted(resp)
       /\ OnlyDevice(selectedDevice, selectedHierarchy)
       /\ f.id = DeviceKey(selectedDevice)
    THEN TransformedData(f, resp.data) ELSE cur

\* chartData after the continuation of call f settled with resp: setChartData
\* runs only in the accepted branch of a device call
ChartAfterSettle(f, resp, cur) ==
    IF f.kind = "device" /\ Accepted(resp) THEN TransformedData(f, resp.data) ELSE cur

\* hierarchyChartData after the continuation of call f: the payload, verbatim
HierarchyAfterSettle(f, resp, cur) ==
    IF f.kind = "hierarchy" /\ Accepted(resp) THEN resp.data ELSE cur

\* mutant: a failed call is made again by its own continuation
InflightAfterSettle_Retry(bag, f, resp) ==
    IF Accepted(resp) THEN bag (-) SetToBag({f}) ELSE bag

\* the calls in flight after the continuation of f ran: f is gone, and neither
\* the try body, catch nor finally makes another call
InflightAfterSettle(bag, f, resp) == bag (-) SetToBag({f})

\* mutant: setIsLoading(false) at the end of the try block instead of in finally
LoadingAfterSettle_NoFinally(resp, cur) ==
    IF resp.settled = "rejected" THEN cur ELSE FALSE

\* `finally { setIsLoading(false) }` of both load functions
LoadingAfterSettle(resp, cur) == FALSE

\* history record of a step: the operation, the kind of the API call it made or
\* settled, whether a settled call was accepted, which populated snapshot it nulled
KindOf(f) == IF f = Null THEN "none" ELSE f.kind
Step(op, f, ok, cleared) == [op |-> op, kind |-> KindOf(f), ok |-> ok, cleared |-> cleared]
Cleared(chart, chart2, hier, hier2) ==
    IF chart # Null /\ chart2 = Null THEN "chartData"
    ELSE IF hier # Null /\ hier2 = Null THEN "hierarchyChartData"
    ELSE "none"

\* observation window: ticks it has been open, timer-made API calls seen in it
NewWindow == [t |-> 0, n |-> 0]
ClosedWindow == [t |-> WindowTicks + 1, n |-> 0]

\* ------------------------------------------------------------------- state
Init ==
    /\ phase = "constructed"
    /\ selectedDevice \in Devices \cup {Null}
    /\ selectedHierarchy \in Hierarchies \cup {Null}
    /\ token \in Tokens \cup {NoToken}
    /\ timeRange = DefaultTimeRange
    /\ chartData = Null
    /\ hierarchyChartData = Null
    /\ isLoading = FALSE
    /\ lastRefresh = 0
    /\ refreshIntervalRef = 0
    /\ timers = {}
    /\ inflight = EmptyBag
    /\ win = ClosedWindow
    /\ last = Step("construct", Null, FALSE, "none")

\* A commit with the values d, h, r, tok and the effects React runs for it:
\* the selection effect when run1, the auto-refresh effect (preceded by the
\* cleanup of its previous run) when run2.
Commit(op, d, h, r, tok, run1, run2) ==
    LET f == IF run1 THEN Requested(d, h, r, tok) ELSE Null
        cleaned == ClearCurrent(ClearCurrent(timers, refreshIntervalRef), refreshIntervalRef)
    IN  /\ f # Null => BagCardinality(inflight) < MaxInFlight
        /\ run2 => FreeIds(cleaned, refreshIntervalRef) # {}
        /\ selectedDevice' = d
        /\ selectedHierarchy' = h
        /\ timeRange' = r
        /\ token' = tok
        /\ inflight' = Issue(inflight, f)
        /\ isLoading' = LoadingAfterCall(f, isLoading)
        /\ chartData' = IF run1 THEN ChartAfterEffect(d, h, chartData) ELSE chartData
        /\ hierarchyChartData' =
              IF run1 THEN HierarchyAfterEffect(d, h, hierarchyChartData)
              ELSE hierarchyChartData
        /\ timers' = IF run2 THEN RestartTimers(timers, refreshIntervalRef, d, h, r, tok)
                     ELSE timers
        /\ refreshIntervalRef' =
              IF run2 THEN NewId(cleaned, refreshIntervalRef) ELSE refreshIntervalRef
        /\ win' = IF <<d, h, tok>> # <<selectedDevice, selectedHierarchy, token>>
                  THEN ClosedWindow ELSE win
        /\ last' = Step(op, f, FALSE,
                        Cleared(chartData, chartData', hierarchyChartData, hierarchyChartData'))
        /\ UNCHANGED lastRefresh

\* a re-render: each effect runs when its dependency array changed
Rerender(op, d, h, r, tok) ==
    /\ phase = "mounted"
    /\ Commit(op, d, h, r, tok,
              SelectionEffectDeps(d, h, r, tok)
                 # SelectionEffectDeps(selectedDevice, selectedHierarchy, timeRange, token),
              RefreshEffectDeps(d, h, r, tok)
                 # RefreshEffectDeps(selectedDevice, selectedHierarchy, timeRange, token))
    /\ UNCHANGED phase

\* the first commit: both effects run
Mount ==
    /\ phase = "constructed"
    /\ Commit("mount", selectedDevice, selectedHierarchy, timeRange, token, TRUE, TRUE)
    /\ phase' = "mounted"

\* the parent passes another selectedDevice / selectedHierarchy
ChangeSelection ==
    \E d \in Devices \cup {Null}, h \in Hierarchies \cup {Null} :
        /\ <<d, h>> # <<selectedDevice, selectedHierarchy>>
        /\ Rerender("select", d, h, timeRange, token)

\* useAuth() yields another token
ChangeToken ==
    \E tok \in Tokens \cup {NoToken} :
        /\ tok # token
        /\ Rerender("token", selectedDevice, selectedHierarchy, timeRange, tok)

\* onClick of a time-range button: setTimeRange(option.value)
SetTimeRange ==
    \E r \in TimeRanges :
        /\ r # timeRange
        /\ Rerender("range", selectedDevice, selectedHierarchy, r, token)

\* the interval callback of a timer that is due.  It runs for every live interval,
\* mounted or not; state setters of an unmounted component have no effect.
TimerFire ==
    \E t \in timers :
        LET f == Requested(t.selectedDevice, t.selectedHierarchy, t.timeRange, t.token)
        IN  /\ t.wait = 0
            /\ f # Null => BagCardinality(inflight) < MaxInFlight
            /\ lastRefresh' = IF phase = "mounted" THEN 0 ELSE lastRefresh
            /\ inflight' = Issue(inflight, f)
            /\ isLoading' = IF phase = "mounted" THEN LoadingAfterCall(f, isLoading)
                            ELSE isLoading
            /\ timers' = (timers \ {t}) \cup {[t EXCEPT !.wait = PeriodTicks]}
            /\ win' = IF f # Null /\ win.t <= WindowTicks
                      THEN [win EXCEPT !.n = @ + 1] ELSE win
            /\ last' = Step("timer", f, FALSE, "none")
            /\ UNCHANGED <<phase, selectedDevice, selectedHierarchy, token, timeRange,
                           chartData, hierarchyChartData, refreshIntervalRef>>

\* the continuation of an awaited API call: try body after the await, catch, finally.
\* State setters of an unmounted component have no effect.
Settle ==
    \E f \in BagToSet(inflight) : \E resp \in Responses(f) :
        /\ inflight' = InflightAfterSettle(inflight, f, resp)
        /\ IF phase = "mounted"
           THEN /\ chartData' = ChartAfterSettle(f, resp, chartData)
                /\ hierarchyChartData' = HierarchyAfterSettle(f, resp, hierarchyChartData)
                /\ isLoading' = LoadingAfterSettle(resp, isLoading)
           ELSE UNCHANGED <<chartData, hierarchyChartData, isLoading>>
        /\ last' = Step("settle", f, Accepted(resp), "none")
        /\ UNCHANGED <<phase, selectedDevice, selectedHierarchy, token, timeRange,
                       lastRefresh, refreshIntervalRef, timers, win>>

\* the component is removed: the cleanup of the auto-refresh effect runs
Unmount ==
    /\ phase = "mounted"
    /\ phase' = "unmounted"
    /\ timers' = ClearCurrent(timers, refreshIntervalRef)
    /\ win' = ClosedWindow
    /\ last' = Step("unmount", Null, FALSE, "none")
    /\ UNCHANGED <<selectedDevice, selectedHierarchy, token, timeRange, chartData,
                   hierarchyChartData, isLoading, lastRefresh, refreshIntervalRef,
                   inflight>>

\* one tick of time passes; an interval that is due fires first
Tick ==
    /\ phase = "mounted" \/ (phase = "unmounted" /\ timers # {})
    /\ \A t \in timers : t.wait > 0
    /\ timers' = {[t EXCEPT !.wait = @ - 1] : t \in timers}
    /\ lastRefresh' = IF phase = "mounted" THEN Min(lastRefresh + 1, AgeCap) ELSE lastRefresh
    /\ win' = IF win.t < WindowTicks THEN [win EXCEPT !.t = @ + 1] ELSE ClosedWindow
    /\ last' = Step("tick", Null, FALSE, "none")
    /\ UNCHANGED <<phase, selectedDevice, selectedHierarchy, token, timeRange, chartData,
                   hierarchyChartData, isLoading, refreshIntervalRef, inflight>>

\* an observer starts to watch the component for a window of WindowTicks; the
\* window is abandoned when the selection or the token changes or the component
\* unmounts
OpenWindow ==
    /\ phase = "mounted"
    /\ token # NoToken
    /\ OnlyDevice(selectedDevice, selectedHierarchy)
          \/ OnlyHierarchy(selectedDevice, selectedHierarchy)
    /\ win = ClosedWindow
    /\ win' = NewWindow
    /\ last' = Step("watch", Null, FALSE, "none")
    /\ UNCHANGED <<phase, selectedDevice, selectedHierarchy, token, timeRange, chartData,
                   hierarchyChartData, isLoading, lastRefresh, refreshIntervalRef, timers,
                   inflight>>

Next ==
    \/ Mount
    \/ ChangeSelection
    \/ ChangeToken
    \/ SetTimeRange
    \/ TimerFire
    \/ Settle
    \/ Unmount
    \/ Tick

Spec == Init /\ [][Next]_vars

\* the scheduling the runtime gives: time passes, a due interval fires, and (the
\* premise of the liveness claim) an awaited API call settles
Fairness == WF_vars(Tick) /\ WF_vars(TimerFire) /\ WF_vars(Settle)
SpecFair == Init /\ [][Next]_vars /\ Fairness

\* the same program with the observer of the 20-second window
NextWatched == Next \/ OpenWindow
SpecWatched == Init /\ [][NextWatched]_vars

\* ------------------------------------------------------------------ claims
\* exactly one of {device, hierarchy} is selected
ExactlyOne ==
    OnlyDevice(selectedDevice, selectedHierarchy)
       \/ OnlyHierarchy(selectedDevice, selectedHierarchy)

\* the API call that belongs to the current selection, time range and token
CallFor(d, h, r, tok) ==
    IF OnlyDevice(d, h)
    THEN [kind |-> "device", id |-> DeviceKey(d), timeRange |-> r, token |-> tok]
    ELSE [kind |-> "hierarchy", id |-> h.id, timeRange |-> r, token |-> tok]
CurrentCall == CallFor(selectedDevice, selectedHierarchy, timeRange, token)

\* a step of the selection reaction caused by a change of a dependency
ChangeOps == {"select", "token", "range"}

\* the calls in flight after the step are those before it plus the call f
IssuedExactly(f) == inflight' = inflight (+) SetToBag({f})

\* C1 as stated: whenever the selection, the time range or the token changes
\* and exactly one of {device, hierarchy} is selected afterwards, exactly one
\* API call is made, of the selected kind, with the selected time range.
C1_OneFetchPerChange ==
    [][(last'.op \in ChangeOps /\ ExactlyOne') => IssuedExactly(CurrentCall')]_vars

\* C1 amended: the same while a token is present; without a token the change
\* makes no API call at all.
C1_OneFetchPerChangeWithToken ==
    [][(last'.op \in ChangeOps /\ ExactlyOne')
         => IF token' # NoToken THEN IssuedExactly(CurrentCall')
            ELSE inflight' = inflight]_vars

\* C1 witness: the time range was changed with a hierarchy node selected and a
\* token present, and the call with the new range is in flight.
C1_Witness ==
    /\ last.op = "range"
    /\ last.kind = "hierarchy"
    /\ token # NoToken
    /\ OnlyHierarchy(selectedDevice, selectedHierarchy)
    /\ timeRange # DefaultTimeRange
    /\ BagIn(CurrentCall, inflight)

\* C2 as stated: when the selection becomes both-set or neither-set, the
\* selection reaction makes no API call and both snapshots are null afterwards.
C2_BothOrNeitherClears ==
    (last.op = "select" /\ ~ExactlyOne)
       => (last.kind = "none" /\ chartData = Null /\ hierarchyChartData = Null)

\* C3 as stated: at most one of the two snapshots is populated.
C3_AtMostOneSnapshot ==
    phase = "mounted" => (chartData = Null \/ hierarchyChartData = Null)

\* C4: right after the selection reaction ran (mount, or a change of selection,
\* time range or token), the device snapshot is null if only a hierarchy node
\* is selected and the hierarchy snapshot is null if only a device is selected,
\* whatever becomes of the API call the reaction made.
C4_ClearsOtherKindAtOnce ==
    last.op \in ChangeOps \cup {"mount"}
       => /\ OnlyHierarchy(selectedDevice, selectedHierarchy) => chartData = Null
          /\ OnlyDevice(selectedDevice, selectedHierarchy) => hierarchyChartData = Null

\* C4 witness: the selection went to hierarchy-only, a populated device snapshot
\* was nulled by that step, and the hierarchy call is still in flight.
C4_Witness ==
    /\ last.op = "select"
    /\ last.cleared = "chartData"
    /\ OnlyHierarchy(selectedDevice, selectedHierarchy)
    /\ chartData = Null
    /\ BagIn(CurrentCall, inflight)
\* C5: during the component's life the loading flag is false before the first
\* render's effects, true only while at least one API call is in flight, and
\* false in the state that follows the settlement of any call.
C5_LoadingOnlyWhileInFlight ==
    phase # "unmounted"
       => /\ phase = "constructed" => ~isLoading
          /\ isLoading => BagCardinality(inflight) > 0
          /\ last.op = "settle" => ~isLoading

\* C5 witness: a call that was rejected or not accepted has just settled, no call
\* is left in flight and the flag is false.
C5_Witness ==
    /\ phase = "mounted"
    /\ last.op = "settle"
    /\ ~last.ok
    /\ inflight = EmptyBag
    /\ ~isLoading

\* C6: the settlement of a call that is rejected or not accepted changes neither
\* snapshot nor any other state of the component but the loading flag, which is
\* false afterwards.
C6_FailureKeepsSnapshots ==
    [][(last'.op = "settle" /\ ~last'.ok)
         => /\ UNCHANGED <<chartData, hierarchyChartData, timeRange, lastRefresh,
                           refreshIntervalRef, timers, selectedDevice,
                           selectedHierarchy, token>>
            /\ phase = "mounted" => ~isLoading']_vars

\* C6 witness: a device call has just failed while a device snapshot is shown.
C6_Witness ==
    /\ phase = "mounted"
    /\ last.op = "settle"
    /\ last.kind = "device"
    /\ ~last.ok
    /\ chartData # Null
    /\ ~isLoading

\* a step after which no API call is in flight that was not in flight before it
NoCallStarted ==
    \A f \in BagToSet(inflight') : CopiesIn(f, inflight') <= CopiesIn(f, inflight)

\* C7: at most one interval is live at any time, none is live once the component
\* is unmounted, and no API call is started after the unmount.
C7_NoOrphanTimer ==
    /\ [](Cardinality(timers) <= 1 /\ (phase = "unmounted" => timers = {}))
    /\ [][phase = "unmounted" => NoCallStarted]_vars

\* C7 witness: the component has just been unmounted with something selected;
\* the ref still holds the id of the interval it had, and no interval is left.
C7_Witness ==
    /\ phase = "unmounted"
    /\ last.op = "unmount"
    /\ refreshIntervalRef # 0
    /\ timers = {}
    /\ <<selectedDevice, selectedHierarchy>> # <<Null, Null>>

\* the call a firing makes is the one of the current selection, with some time range
RefetchesCurrent ==
    \E r \in timeRangeOptions :
        IssuedExactly(CallFor(selectedDevice, selectedHierarchy, r, token))

\* C8 as stated: a firing of the interval of the mounted component makes the API
\* call of the current selection (none if both or neither are selected), stamps
\* lastRefresh and leaves the selection and the time range as they are.
C8_TimerRefetches ==
    [][(last'.op = "timer" /\ phase = "mounted")
         => /\ IF ExactlyOne THEN RefetchesCurrent ELSE inflight' = inflight
            /\ lastRefresh' = 0
            /\ UNCHANGED <<selectedDevice, selectedHierarchy, timeRange>>]_vars

\* C8 amended: the same while a token is present; without a token a firing makes
\* no API call.
C8_TimerRefetchesWithToken ==
    [][(last'.op = "timer" /\ phase = "mounted")
         => /\ IF ExactlyOne /\ token # NoToken THEN RefetchesCurrent
               ELSE inflight' = inflight
            /\ lastRefresh' = 0
            /\ UNCHANGED <<selectedDevice, selectedHierarchy, timeRange>>]_vars

\* C8 witness: the interval has just fired with only a device selected and a
\* token present; lastRefresh is stamped and the device call is in flight.
C8_Witness ==
    /\ phase = "mounted"
    /\ last.op = "timer"
    /\ last.kind = "device"
    /\ lastRefresh = 0
    /\ token # NoToken
    /\ OnlyDevice(selectedDevice, selectedHierarchy)
    /\ \E f \in BagToSet(inflight) : f.kind = "device" /\ f.id = DeviceKey(selectedDevice)

\* the live intervals without the time they still wait
Intervals(ts) == {[t EXCEPT !.wait = 0] : t \in ts}

\* C9: a window of 20 seconds over a mounted component with a token and a stable
\* selection of exactly one kind holds at least 3 and at most 5 API calls made
\* by the interval; and the interval is torn down or created only by the mount,
\* the unmount, and a change of the selected device, the selected hierarchy or
\* the token (not by a change of time range, a settlement, a firing or a tick).
C9_PeriodAndRecreation ==
    /\ []((phase = "mounted" /\ token # NoToken /\ ExactlyOne /\ win.t = WindowTicks)
            => (win.n >= 3 /\ win.n <= 5))
    /\ [][(Intervals(timers') # Intervals(timers) \/ refreshIntervalRef' # refreshIntervalRef)
            => last'.op \in {"mount", "unmount", "select", "token"}]_vars

\* C9 witness: a whole window has passed, the time range was changed since the
\* interval was created, and the interval made its calls.
C9_Witness ==
    /\ phase = "mounted"
    /\ win.t = WindowTicks
    /\ win.n >= 3
    /\ \E t \in timers : t.timeRange # timeRange

\* C10: no step but a settlement takes a call out of flight (a change of
\* selection cancels nothing), and an accepted settlement writes its result into
\* the snapshot of its kind whatever is selected by then.
C10_NoCancelNoGuard ==
    [][/\ last'.op # "settle"
            => \A f \in BagToSet(inflight) : CopiesIn(f, inflight') >= CopiesIn(f, inflight)
       /\ (last'.op = "settle" /\ last'.ok /\ phase = "mounted")
            => \A f \in BagToSet(inflight) :
                  CopiesIn(f, inflight') < CopiesIn(f, inflight)
                     => IF f.kind = "device"
                        THEN chartData' = [id |-> f.id, timeRange |-> f.timeRange]
                        ELSE hierarchyChartData' = [id |-> f.id, timeRange |-> f.timeRange]
      ]_vars

\* C10 witness: only a hierarchy node is selected, and a device call made for the
\* earlier selection has just settled and put its result into the device snapshot.
C10_Witness ==
    /\ phase = "mounted"
    /\ last.op = "settle"
    /\ last.kind = "device"
    /\ last.ok
    /\ OnlyHierarchy(selectedDevice, selectedHierarchy)
    /\ chartData # Null
\* a step after which some API call is in flight more often than before it
CallStarted == ~NoCallStarted

\* the steps that run the selection reaction
ReactionOps == ChangeOps \cup {"mount"}

\* C11: the settlement of a failed call takes that call out of flight and starts
\* none (no retry), and the only steps of the mounted component that start a
\* call are a firing of the interval and a change of selection, time range or
\* token.
C11_NoRetry ==
    [][/\ (last'.op = "settle" /\ ~last'.ok)
            => /\ NoCallStarted
               /\ BagCardinality(inflight') = BagCardinality(inflight) - 1
       /\ (CallStarted /\ phase = "mounted") => last'.op \in ChangeOps \cup {"timer"}
      ]_vars

\* C11 witness: with a token present and only a hierarchy node selected, the
\* hierarchy call has just failed; nothing is in flight and nothing is shown.
C11_Witness ==
    /\ phase = "mounted"
    /\ last.op = "settle"
    /\ last.kind = "hierarchy"
    /\ ~last.ok
    /\ token # NoToken
    /\ OnlyHierarchy(selectedDevice, selectedHierarchy)
    /\ inflight = EmptyBag
    /\ hierarchyChartData = Null

\* the call whose continuation ran in the step
SettledIn(f) == CopiesIn(f, inflight') < CopiesIn(f, inflight)

\* C12: a snapshot changes only when an accepted call of its own kind settles,
\* and then it becomes that call's result, or when the selection reaction nulls
\* it with only the other kind selected; so firings, failed calls and calls of
\* the other kind never change it.
C12_SnapshotFrame ==
    [][/\ chartData' # chartData
            => \/ /\ last'.op = "settle" /\ last'.ok /\ last'.kind = "device"
                  /\ \E f \in BagToSet(inflight) :
                        /\ SettledIn(f)
                        /\ chartData' = [id |-> f.id, timeRange |-> f.timeRange]
               \/ /\ last'.op \in ReactionOps
                  /\ OnlyHierarchy(selectedDevice', selectedHierarchy')
                  /\ chartData' = Null
       /\ hierarchyChartData' # hierarchyChartData
            => \/ /\ last'.op = "settle" /\ last'.ok /\ last'.kind = "hierarchy"
                  /\ \E f \in BagToSet(inflight) :
                        /\ SettledIn(f)
                        /\ hierarchyChartData' = [id |-> f.id, timeRange |-> f.timeRange]
               \/ /\ last'.op \in ReactionOps
                  /\ OnlyDevice(selectedDevice', selectedHierarchy')
                  /\ hierarchyChartData' = Null
      ]_vars

\* C12 witness: an accepted hierarchy call has just settled and its payload is
\* the hierarchy snapshot, next to a device snapshot it did not touch.
C12_Witness ==
    /\ phase = "mounted"
    /\ last.op = "settle"
    /\ last.kind = "hierarchy"
    /\ last.ok
    /\ hierarchyChartData # Null
    /\ chartData # Null

\* C13 as stated: the call a firing of the interval makes carries the time range
\* selected at the moment of the firing.
C13_TimerUsesCurrentRange ==
    [][(last'.op = "timer" /\ phase = "mounted" /\ CallStarted)
         => IssuedExactly(CurrentCall)]_vars
\* the snapshot of the selected kind is the result of the call for the current
\* selection and the current time range
ShowsCurrent ==
    IF OnlyDevice(selectedDevice, selectedHierarchy)
    THEN chartData = [id |-> DeviceKey(selectedDevice), timeRange |-> timeRange]
    ELSE IF OnlyHierarchy(selectedDevice, selectedHierarchy)
    THEN hierarchyChartData = [id |-> selectedHierarchy.id, timeRange |-> timeRange]
    ELSE FALSE

\* the component is mounted with a token and exactly one kind selected, and the
\* last step neither changed selection, time range or token nor failed a call
Settled ==
    /\ phase = "mounted"
    /\ token # NoToken
    /\ ExactlyOne
    /\ last.op \notin ChangeOps
    /\ ~(last.op = "settle" /\ ~last.ok)

\* C14 as stated: if from some point on the selection, the time range and the
\* token stay fixed and every call that settles is accepted (calls do settle:
\* Fairness), then from some point on the snapshot shows the current selection
\* with the current time range.
C14_EventuallyCurrent == <>[]Settled => <>[]ShowsCurrent
\* C15 as stated: while the component is mounted, the loading flag is true in
\* every state in which at least one API call is in flight.
C15_LoadingWhileAnyInFlight ==
    (phase = "mounted" /\ BagCardinality(inflight) > 0) => isLoading

\* C16: without a token, the selection reaction and a firing of the interval
\* make no API call and do not raise the loading flag; the reaction still leaves
\* the snapshot of the other kind null and the firing still stamps lastRefresh.
C16_NoTokenNoFetch ==
    [][/\ (last'.op \in ReactionOps /\ token' = NoToken)
            => /\ inflight' = inflight
               /\ isLoading' = isLoading
               /\ OnlyHierarchy(selectedDevice', selectedHierarchy') => chartData' = Null
               /\ OnlyDevice(selectedDevice', selectedHierarchy')
                     => hierarchyChartData' = Null
       /\ (last'.op = "timer" /\ phase = "mounted" /\ token = NoToken)
            => /\ inflight' = inflight
               /\ isLoading' = isLoading
               /\ lastRefresh' = 0
      ]_vars

\* C16 witness: without a token the selection went to hierarchy-only; the step
\* nulled a populated device snapshot and made no call.
C16_Witness ==
    /\ phase = "mounted"
    /\ token = NoToken
    /\ last.op = "select"
    /\ last.kind = "none"
    /\ last.cleared = "chartData"
    /\ OnlyHierarchy(selectedDevice, selectedHierarchy)
    /\ chartData = Null

====
